---- MODULE Spec2Model ----
(***************************************************************************)
(* The Snake game of src/src/components/Frame.tsx.  The file holds two     *)
(* copies of the SnakeGame component:                                      *)
(*   "wrap"   (lines 23-219):  10x10 grid, edges wrap, food avoids the     *)
(*            snake, decay 0.95, has resetGame;                            *)
(*   "lethal" (lines 354-495): 20x20 grid, leaving the grid is lethal,     *)
(*            food is drawn with no rejection, decay 0.90, no reset.       *)
(* A state of the model is the React state of one mounted component as of  *)
(* its last committed render; every action is one callback (timer tick,    *)
(* key press, touch event, button click) run to completion together with   *)
(* the state updates it batches, the render they cause and the effects     *)
(* that render re-runs.                                                    *)
(***************************************************************************)
EXTENDS Integers, Sequences, FiniteSets, TLC

VARIABLES variant, snake, food, direction, gameOver, speed, score,
          touchStartX, touchStartY, lastTickDir, lastRequest,
          timers, lastTickAte, mounted, listeners, now, elapsed, sinceTick

vars == <<variant, snake, food, direction, gameOver, speed, score,
          touchStartX, touchStartY, lastTickDir, lastRequest,
          timers, lastTickAte, mounted, listeners, now, elapsed, sinceTick>>

gameVars == <<variant, snake, food, direction, gameOver, speed, score,
              touchStartX, touchStartY>>

lifeVars == <<mounted, listeners, now, elapsed, sinceTick>>

(***************************************************************************)
(* Program constants.                                                      *)
(***************************************************************************)
GridWrap == 10
GridLethal == 20
InitSpeed == 200
FloorSpeed == 50
ScoreStep == 100

(***************************************************************************)
(* Bounds of the model.                                                    *)
(*   MaxLen      the movement timer is only followed while the snake has   *)
(*               at most MaxLen segments;                                  *)
(*   DrawRadius  Math.random() draws are followed when they land within    *)
(*               this many steps of the cell just eaten;                   *)
(*   MaxCoord    touch points have clientX, clientY in 0..MaxCoord;        *)
(*   Quanta      the clock of SpecLife advances in steps of 1/Quanta of    *)
(*               the armed timer's period;                                 *)
(*   MaxTime     SpecLife follows the first MaxTime clock steps;           *)
(*   MaxListeners  SpecLife follows input while window holds at most this  *)
(*               many touchstart listeners;                                *)
(*   FullSlack   SpecFull starts from snakes that leave at most this many  *)
(*               cells of the wrap grid free, and follows the timer while  *)
(*               the snake leaves at most this many free.                  *)
(***************************************************************************)
MaxLen == 2
DrawRadius == 1
MaxCoord == 1
Quanta == 2
MaxTime == 6
MaxListeners == 6
FullSlack == 3

Variants == {"wrap", "lethal"}
Dirs == {"RIGHT", "LEFT", "UP", "DOWN"}
Keys == {"ArrowUp", "ArrowDown", "ArrowLeft", "ArrowRight", "Other"}

Opposite(d) ==
  CASE d = "RIGHT" -> "LEFT"
    [] d = "LEFT" -> "RIGHT"
    [] d = "UP" -> "DOWN"
    [] d = "DOWN" -> "UP"
    [] OTHER -> "NONE"

Abs(i) == IF i < 0 THEN -i ELSE i

Cells(s) == {s[i] : i \in 1..Len(s)}

(***************************************************************************)
(* Rational numbers <<num, den>> in lowest terms, den > 0: the tick        *)
(* interval is a JavaScript number, 200 * 0.95^k or 200 * 0.9^k.           *)
(***************************************************************************)
RECURSIVE Gcd(_, _)
Gcd(a, b) == IF b = 0 THEN a ELSE Gcd(b, a % b)

Rat(n, d) == <<n \div Gcd(n, d), d \div Gcd(n, d)>>

RatLess(p, q) == p[1] * q[2] < q[1] * p[2]

RatMul(p, q) == Rat(p[1] * q[1], p[2] * q[2])

RatMax(p, q) == IF RatLess(p, q) THEN q ELSE p

\* the literals 0.95 (line 123) and 0.9 (line 435)
DecayWrap == Rat(95, 100)
DecayLethal == Rat(9, 10)

(***************************************************************************)
(* Pure helpers of the tick.                                               *)
(***************************************************************************)
\* the switch on direction: head.x += 1, head.x -= 1, head.y -= 1, head.y += 1
Step(h, d) ==
  CASE d = "RIGHT" -> <<h[1] + 1, h[2]>>
    [] d = "LEFT" -> <<h[1] - 1, h[2]>>
    [] d = "UP" -> <<h[1], h[2] - 1>>
    [] d = "DOWN" -> <<h[1], h[2] + 1>>

\* JavaScript's %: the result takes the sign of the dividend
JsRem(a, n) == IF a >= 0 THEN a % n ELSE -((-a) % n)

\* ((c % 10) + 10) % 10
WrapCoord(c) == JsRem(JsRem(c, GridWrap) + GridWrap, GridWrap)

\* checkCollision that never finds the head on the body
checkCollisionWrap_NoSelf(head, s) == FALSE

\* checkCollision that also spares the tail, which the tick is about to pop
checkCollisionWrap_SparesTail(head, s) ==
  \E i \in 1..Len(s) : i # 1 /\ i # Len(s) /\ s[i] = head

\* snake.some((segment, index) => index !== 0 && segment equals head)
checkCollisionWrap(head, s) ==
  \E i \in 1..Len(s) : i # 1 /\ s[i] = head

\* checkCollision with the boundary test only
checkCollisionLethal_NoSelf(head, s) ==
  \/ head[1] < 0
  \/ head[1] >= GridLethal
  \/ head[2] < 0
  \/ head[2] >= GridLethal

\* mutant: the upper bounds tested with > in place of >=
checkCollisionLethal_OffByOne(head, s) ==
  \/ head[1] < 0
  \/ head[1] > GridLethal
  \/ head[2] < 0
  \/ head[2] > GridLethal
  \/ \E i \in 1..Len(s) : i # 1 /\ s[i] = head

checkCollisionLethal(head, s) ==
  \/ head[1] < 0
  \/ head[1] >= GridLethal
  \/ head[2] < 0
  \/ head[2] >= GridLethal
  \/ \E i \in 1..Len(s) : i # 1 /\ s[i] = head

\* The cells (Math.floor(Math.random() * n), Math.floor(Math.random() * n)) the
\* model follows: those at most DrawRadius steps from cell c.
RandCells(c, n) ==
  {p \in (0..(n - 1)) \X (0..(n - 1)) :
     Abs(p[1] - c[1]) + Abs(p[2] - c[2]) <= DrawRadius}

\* generateFood with || for && in the test: a draw is rejected when it shares
\* a column or a row with a segment
generateFoodWrap_RowOrColumn(s, draws) ==
  {c \in draws : \A i \in 1..Len(s) : s[i][1] # c[1] /\ s[i][2] # c[2]}

\* The values the do-while loop can return: a draw is rejected while it lies on
\* a segment of s, the snake state of the render the callback closes over.
generateFoodWrap(s, draws) == {c \in draws : c \notin Cells(s)}

\* One draw, no rejection.
generateFoodLethal(draws) == draws

\* mutant: the tail is never dropped
pop_Skipped(s) == s

\* newSnake.pop()
pop(s) == SubSeq(s, 1, Len(s) - 1)

\* mutant: a different increment
setScore_Ten(prev) == prev + 10

\* prev => prev + 100
setScore(prev) == prev + ScoreStep

\* mutant: Math.min in place of Math.max
setSpeedWrap_Min(prev) ==
  IF RatLess(Rat(FloorSpeed, 1), RatMul(prev, DecayWrap))
  THEN Rat(FloorSpeed, 1) ELSE RatMul(prev, DecayWrap)

\* prev => Math.max(50, prev * 0.95)
setSpeedWrap(prev) == RatMax(Rat(FloorSpeed, 1), RatMul(prev, DecayWrap))

\* prev => Math.max(50, prev * 0.9)
setSpeedLethal(prev) == RatMax(Rat(FloorSpeed, 1), RatMul(prev, DecayLethal))

(***************************************************************************)
(* Input handlers: the direction after the handler has run.                *)
(***************************************************************************)
\* mutant: ArrowLeft guarded against the wrong direction
handleKeyPress_WrongGuard(key, d) ==
  CASE key = "ArrowUp" -> IF d # "DOWN" THEN "UP" ELSE d
    [] key = "ArrowDown" -> IF d # "UP" THEN "DOWN" ELSE d
    [] key = "ArrowLeft" -> IF d # "LEFT" THEN "LEFT" ELSE d
    [] key = "ArrowRight" -> IF d # "LEFT" THEN "RIGHT" ELSE d
    [] OTHER -> d

handleKeyPress(key, d) ==
  CASE key = "ArrowUp" -> IF d # "DOWN" THEN "UP" ELSE d
    [] key = "ArrowDown" -> IF d # "UP" THEN "DOWN" ELSE d
    [] key = "ArrowLeft" -> IF d # "RIGHT" THEN "LEFT" ELSE d
    [] key = "ArrowRight" -> IF d # "LEFT" THEN "RIGHT" ELSE d
    [] OTHER -> d

\* handleTouch with the vertical swipes guarded against the wrong direction
handleTouch_WrongGuard(deltaX, deltaY, d) ==
  IF Abs(deltaX) > Abs(deltaY)
  THEN IF deltaX > 0 /\ d # "LEFT" THEN "RIGHT"
       ELSE IF deltaX < 0 /\ d # "RIGHT" THEN "LEFT"
       ELSE d
  ELSE IF deltaY > 0 /\ d # "DOWN" THEN "DOWN"
       ELSE IF deltaY < 0 /\ d # "UP" THEN "UP"
       ELSE d

handleTouch(deltaX, deltaY, d) ==
  IF Abs(deltaX) > Abs(deltaY)
  THEN IF deltaX > 0 /\ d # "LEFT" THEN "RIGHT"
       ELSE IF deltaX < 0 /\ d # "RIGHT" THEN "LEFT"
       ELSE d
  ELSE IF deltaY > 0 /\ d # "UP" THEN "DOWN"
       ELSE IF deltaY < 0 /\ d # "DOWN" THEN "UP"
       ELSE d

\* The direction a key or a swipe asks for ("NONE": no request).
KeyCandidate(key) ==
  CASE key = "ArrowUp" -> "UP"
    [] key = "ArrowDown" -> "DOWN"
    [] key = "ArrowLeft" -> "LEFT"
    [] key = "ArrowRight" -> "RIGHT"
    [] OTHER -> "NONE"

SwipeCandidate(deltaX, deltaY) ==
  IF Abs(deltaX) > Abs(deltaY)
  THEN IF deltaX > 0 THEN "RIGHT" ELSE "LEFT"
  ELSE IF deltaY > 0 THEN "DOWN"
       ELSE IF deltaY < 0 THEN "UP" ELSE "NONE"

(***************************************************************************)
(* The two effects.  Both components register their window listeners in    *)
(* one effect and arm the movement interval in another.                    *)
(*   listeners  how many listeners of each type window holds;              *)
(*   timers     the periods of the armed intervals, oldest first.          *)
(***************************************************************************)
NoListeners == [keydown |-> 0, touchstart |-> 0, touchmove |-> 0]

\* the effect body: keydown, two touchstart arrow functions, touchmove
addEventListeners(ls) ==
  [keydown |-> ls.keydown + 1,
   touchstart |-> ls.touchstart + 2,
   touchmove |-> ls.touchmove + 1]

\* the cleanup: handleKeyPress and handleTouch are removed by reference;
\* the two touchstart calls pass arrow functions created in the cleanup
\* itself, which match no registered listener and remove nothing
removeEventListeners(ls) ==
  [keydown |-> ls.keydown - 1,
   touchstart |-> ls.touchstart,
   touchmove |-> ls.touchmove - 1]

\* a render whose dependencies changed runs the cleanup and then the body
inputEffect(ls, rerun) ==
  IF rerun THEN addEventListeners(removeEventListeners(ls)) ELSE ls

\* clearInterval(gameInterval): the cleanup clears the interval its run armed
clearInterval(armed) == IF armed = <<>> THEN armed ELSE Tail(armed)

\* movementEffect without its early return on gameOver
movementEffect_ArmsWhenOver(armed, rerun, over, period) ==
  IF ~rerun THEN armed ELSE Append(clearInterval(armed), period)

\* movementEffect that keeps the interval it finds armed
movementEffect_KeepsArmed(armed, rerun, over, period) ==
  IF ~rerun THEN armed
  ELSE IF over THEN clearInterval(armed)
       ELSE IF armed # <<>> THEN armed ELSE <<period>>

\* cleanup, then: if (gameOver) return; setInterval(moveSnake, speed)
movementEffect(armed, rerun, over, period) ==
  IF ~rerun THEN armed
  ELSE IF over THEN clearInterval(armed)
       ELSE Append(clearInterval(armed), period)

(***************************************************************************)
(* State after construction (useState initial values); variant names which *)
(* of the two components is mounted.  lastTickDir and lastRequest are      *)
(* history variables: the direction the previous tick of this game         *)
(* applied, and the direction the last arrow key or swipe of this game     *)
(* asked for ("NONE": none yet); lastTickAte tells whether the previous    *)
(* tick of this game ate.  The effects of the first render have run.  The  *)
(* clock counts steps of 1/Quanta of a period: now since the mount,        *)
(* elapsed since the armed interval was armed, sinceTick since the last    *)
(* tick (or the mount).                                                    *)
(***************************************************************************)
InitWrap ==
  /\ variant = "wrap"
  /\ snake = <<(<<5, 5>>)>>
  /\ food = <<2, 2>>

InitLethal ==
  /\ variant = "lethal"
  /\ snake = <<(<<10, 10>>)>>
  /\ food = <<5, 5>>

Init ==
  /\ InitWrap \/ InitLethal
  /\ direction = "RIGHT"
  /\ gameOver = FALSE
  /\ speed = Rat(InitSpeed, 1)
  /\ score = 0
  /\ touchStartX = 0
  /\ touchStartY = 0
  /\ lastTickDir = "NONE"
  /\ lastRequest = "NONE"
  /\ lastTickAte = FALSE
  /\ mounted = TRUE
  /\ listeners = addEventListeners(NoListeners)
  /\ timers = movementEffect(<<>>, TRUE, gameOver, speed)
  /\ now = 0
  /\ elapsed = 0
  /\ sinceTick = 0

(***************************************************************************)
(* The movement timer's callback.  The effect arms no timer when gameOver. *)
(***************************************************************************)
moveSnakeOfWrap ==
  /\ variant = "wrap"
  /\ ~gameOver
  /\ LET stepped == Step(snake[1], direction)
         head == <<WrapCoord(stepped[1]), WrapCoord(stepped[2])>>
         newSnake == <<head>> \o snake
     IN IF checkCollisionWrap(head, snake)
        THEN /\ gameOver' = TRUE
             /\ UNCHANGED <<snake, food, speed, score>>
        ELSE /\ gameOver' = gameOver
             /\ IF head = food
                THEN /\ speed' = setSpeedWrap(speed)
                     /\ score' = setScore(score)
                     /\ food' \in generateFoodWrap(snake, RandCells(head, GridWrap))
                     /\ snake' = newSnake
                ELSE /\ snake' = pop(newSnake)
                     /\ UNCHANGED <<food, speed, score>>
  /\ lastTickDir' = direction
  /\ UNCHANGED <<variant, direction, touchStartX, touchStartY, lastRequest>>

MoveSnakeWrap ==
  /\ Len(snake) <= MaxLen
  /\ moveSnakeOfWrap

MoveSnakeLethal ==
  /\ variant = "lethal"
  /\ ~gameOver
  /\ Len(snake) <= MaxLen
  /\ LET head == Step(snake[1], direction)
         newSnake == <<head>> \o snake
     IN IF checkCollisionLethal(head, snake)
        THEN /\ gameOver' = TRUE
             /\ UNCHANGED <<snake, food, speed, score>>
        ELSE /\ gameOver' = gameOver
             /\ IF head = food
                THEN /\ food' \in generateFoodLethal(RandCells(head, GridLethal))
                     /\ speed' = setSpeedLethal(speed)
                     /\ score' = setScore(score)
                     /\ snake' = newSnake
                ELSE /\ snake' = pop(newSnake)
                     /\ UNCHANGED <<food, speed, score>>
  /\ lastTickDir' = direction
  /\ UNCHANGED <<variant, direction, touchStartX, touchStartY, lastRequest>>

(***************************************************************************)
(* Input listeners on window.  A key or swipe that asks for a direction is *)
(* recorded in lastRequest whether or not the handler accepts it.          *)
(***************************************************************************)
KeyDown ==
  \E key \in Keys :
    /\ direction' = handleKeyPress(key, direction)
    /\ lastRequest' = IF KeyCandidate(key) = "NONE" THEN lastRequest
                    ELSE KeyCandidate(key)
    /\ UNCHANGED <<variant, snake, food, gameOver, speed, score,
                   touchStartX, touchStartY, lastTickDir>>

TouchStart ==
  \E x \in 0..MaxCoord, y \in 0..MaxCoord :
    /\ touchStartX' = x
    /\ touchStartY' = y
    /\ UNCHANGED <<variant, snake, food, direction, gameOver, speed, score,
                   lastTickDir, lastRequest>>

TouchMove ==
  \E x \in 0..MaxCoord, y \in 0..MaxCoord :
    LET deltaX == x - touchStartX
        deltaY == y - touchStartY
    IN /\ direction' = handleTouch(deltaX, deltaY, direction)
       /\ lastRequest' = IF SwipeCandidate(deltaX, deltaY) = "NONE" THEN lastRequest
                       ELSE SwipeCandidate(deltaX, deltaY)
       /\ UNCHANGED <<variant, snake, food, gameOver, speed, score,
                      touchStartX, touchStartY, lastTickDir>>

(***************************************************************************)
(* The "Play Again" button, rendered only by the wrap variant and only     *)
(* while gameOver.                                                         *)
(***************************************************************************)
\* resetGame without setScore(0)
resetGame_KeepsScore ==
  /\ variant = "wrap"
  /\ gameOver
  /\ snake' = <<(<<10, 10>>)>>
  /\ food' = <<5, 5>>
  /\ direction' = "RIGHT"
  /\ gameOver' = FALSE
  /\ speed' = Rat(InitSpeed, 1)
  /\ lastTickDir' = "NONE"
  /\ lastRequest' = "NONE"
  /\ UNCHANGED <<variant, score, touchStartX, touchStartY>>

resetGame ==
  /\ variant = "wrap"
  /\ gameOver
  /\ snake' = <<(<<10, 10>>)>>
  /\ food' = <<5, 5>>
  /\ direction' = "RIGHT"
  /\ gameOver' = FALSE
  /\ speed' = Rat(InitSpeed, 1)
  /\ score' = 0
  /\ lastTickDir' = "NONE"
  /\ lastRequest' = "NONE"
  /\ UNCHANGED <<variant, touchStartX, touchStartY>>

(***************************************************************************)
(* A callback that changes state makes React render the component again.   *)
(* Every render gives the movement effect a changed dependency (direction, *)
(* snake, ... and the functions generateFood (wrap) and checkCollision     *)
(* (lethal), which are created anew by each render), so it clears its      *)
(* interval and arms a new one.  The input effect depends on direction,    *)
(* touchStartX and touchStartY.                                            *)
(***************************************************************************)
Rendered == gameVars' # gameVars

InputDepsChanged ==
  <<direction, touchStartX, touchStartY>>' # <<direction, touchStartX, touchStartY>>

RunMovementEffect ==
  timers' = movementEffect(timers, Rendered, gameOver', speed')

\* the armed interval calls moveSnake
GameIntervalWrap ==
  /\ timers # <<>>
  /\ MoveSnakeWrap
  /\ lastTickAte' = (Len(snake') > Len(snake))
  /\ RunMovementEffect

GameIntervalLethal ==
  /\ timers # <<>>
  /\ MoveSnakeLethal
  /\ lastTickAte' = (Len(snake') > Len(snake))
  /\ RunMovementEffect

OnKeyDown == KeyDown /\ RunMovementEffect /\ UNCHANGED lastTickAte

OnTouchStart == TouchStart /\ RunMovementEffect /\ UNCHANGED lastTickAte

OnTouchMove == TouchMove /\ RunMovementEffect /\ UNCHANGED lastTickAte

PlayAgain == resetGame /\ RunMovementEffect /\ lastTickAte' = FALSE

(***************************************************************************)
(* Spec follows the game and its interval; the component stays mounted and *)
(* the listeners and the clock are not followed (SpecLife follows them).   *)
(***************************************************************************)
Next ==
  \/ GameIntervalWrap /\ UNCHANGED lifeVars
  \/ GameIntervalLethal /\ UNCHANGED lifeVars
  \/ OnKeyDown /\ UNCHANGED lifeVars
  \/ OnTouchStart /\ UNCHANGED lifeVars
  \/ OnTouchMove /\ UNCHANGED lifeVars
  \/ PlayAgain /\ UNCHANGED lifeVars

Spec == Init /\ [][Next]_vars

(***************************************************************************)
(* SpecLife follows the same callbacks together with the listeners they    *)
(* reach window through, the clock that makes the interval due, and the    *)
(* unmount of the component.  An interval is due when a whole period has   *)
(* passed since it was armed, and the clock does not pass a due interval.  *)
(* No game ends within the first MaxTime clock steps (the nearest wall is  *)
(* 10 ticks away and the first food 6), so the "Play Again" button is not  *)
(* rendered in any state SpecLife follows.                                 *)
(***************************************************************************)
LifeEffects ==
  /\ listeners' = inputEffect(listeners, InputDepsChanged)
  /\ listeners'.touchstart <= MaxListeners
  /\ elapsed' = IF Rendered THEN 0 ELSE elapsed
  /\ UNCHANGED <<mounted, now>>

LifeTickWrap ==
  /\ elapsed = Quanta
  /\ GameIntervalWrap
  /\ LifeEffects
  /\ sinceTick' = 0

LifeTickLethal ==
  /\ elapsed = Quanta
  /\ GameIntervalLethal
  /\ LifeEffects
  /\ sinceTick' = 0

LifeKeyDown ==
  /\ listeners.keydown > 0
  /\ OnKeyDown
  /\ LifeEffects
  /\ UNCHANGED sinceTick

\* after the unmount the touchstart listeners left on window still run, but
\* React drops a state update of an unmounted component
LifeTouchStart ==
  /\ listeners.touchstart > 0
  /\ mounted
  /\ OnTouchStart
  /\ LifeEffects
  /\ UNCHANGED sinceTick

LifeTouchMove ==
  /\ listeners.touchmove > 0
  /\ OnTouchMove
  /\ LifeEffects
  /\ UNCHANGED sinceTick

\* 1/Quanta of the current period passes
Tock ==
  /\ mounted
  /\ now < MaxTime
  /\ timers = <<>> \/ elapsed < Quanta
  /\ now' = now + 1
  /\ elapsed' = IF timers = <<>> THEN elapsed ELSE elapsed + 1
  /\ sinceTick' = IF gameOver THEN sinceTick ELSE sinceTick + 1
  /\ UNCHANGED <<gameVars, lastTickDir, lastRequest, timers, lastTickAte,
                 mounted, listeners>>

\* React runs the cleanup of both effects
Unmount ==
  /\ mounted
  /\ mounted' = FALSE
  /\ timers' = clearInterval(timers)
  /\ listeners' = removeEventListeners(listeners)
  /\ UNCHANGED <<gameVars, lastTickDir, lastRequest, lastTickAte,
                 now, elapsed, sinceTick>>

LifeNext ==
  \/ LifeTickWrap
  \/ LifeTickLethal
  \/ LifeKeyDown
  \/ LifeTouchStart
  \/ LifeTouchMove
  \/ Tock
  \/ Unmount

SpecLife == Init /\ [][LifeNext]_vars

(***************************************************************************)
(* SpecFull follows the wrap game near its end: it starts from a snake     *)
(* that has eaten its way along the boustrophedon path of the grid (row 0  *)
(* left to right, row 1 right to left, ...) and leaves at most FullSlack   *)
(* cells free, with the food on one of the free cells and the speed at its *)
(* floor, and follows the timer while the snake is that long.              *)
(***************************************************************************)
WrapGrid == (0..(GridWrap - 1)) \X (0..(GridWrap - 1))

PathCell(k) ==
  LET y == (k - 1) \div GridWrap
      r == (k - 1) % GridWrap
  IN <<IF y % 2 = 0 THEN r ELSE GridWrap - 1 - r, y>>

PathSnake(len) == [i \in 1..len |-> PathCell(len + 1 - i)]

InitFull ==
  \E len \in (GridWrap * GridWrap - FullSlack)..(GridWrap * GridWrap - 1) :
    /\ variant = "wrap"
    /\ snake = PathSnake(len)
    /\ food \in {PathCell(k) : k \in (len + 1)..(GridWrap * GridWrap)}
    /\ lastTickDir = CHOOSE d \in Dirs : Step(PathCell(len - 1), d) = PathCell(len)
    /\ direction \in Dirs
    /\ lastRequest = direction
    /\ gameOver = FALSE
    /\ speed = Rat(FloorSpeed, 1)
    /\ score = ScoreStep * (len - 1)
    /\ touchStartX = 0
    /\ touchStartY = 0
    /\ lastTickAte = FALSE
    /\ mounted = TRUE
    /\ listeners = addEventListeners(NoListeners)
    /\ timers = movementEffect(<<>>, TRUE, gameOver, speed)
    /\ now = 0
    /\ elapsed = 0
    /\ sinceTick = 0

GameIntervalFull ==
  /\ timers # <<>>
  /\ Len(snake) >= GridWrap * GridWrap - FullSlack
  /\ moveSnakeOfWrap
  /\ lastTickAte' = (Len(snake') > Len(snake))
  /\ RunMovementEffect

NextFull ==
  \/ GameIntervalFull /\ UNCHANGED lifeVars
  \/ OnKeyDown /\ UNCHANGED lifeVars
  \/ OnTouchStart /\ UNCHANGED lifeVars
  \/ OnTouchMove /\ UNCHANGED lifeVars
  \/ PlayAgain /\ UNCHANGED lifeVars

SpecFull == InitFull /\ [][NextFull]_vars

(***************************************************************************)
(* Vocabulary of the claims.                                               *)
(***************************************************************************)
\* a step of the movement timer's callback, in either variant
Tick == MoveSnakeWrap \/ MoveSnakeLethal

\* a step of a direction request: an arrow key or a swipe
Request == KeyDown \/ TouchMove

\* the head a tick computes from the current state (after the wrap, if any)
ComputedHead ==
  LET h == Step(snake[1], direction)
  IN IF variant = "wrap" THEN <<WrapCoord(h[1]), WrapCoord(h[2])>> ELSE h

OutOfGrid(h, n) == h[1] < 0 \/ h[1] >= n \/ h[2] < 0 \/ h[2] >= n

(***************************************************************************)
(* C1: a tick never applies the exact opposite of the direction the        *)
(* previous tick of the same game applied, whatever requests were handled  *)
(* in between.                                                             *)
(***************************************************************************)
C1_TickNeverReverses ==
  [][Tick => direction # Opposite(lastTickDir)]_vars

(***************************************************************************)
(* C2: wrap variant: after a food-eaten tick the new food lies on no       *)
(* segment of the snake as it is after that tick (new head included).      *)
(***************************************************************************)
C2_NewFoodOffNewSnake ==
  [][(MoveSnakeWrap /\ Len(snake') = Len(snake) + 1)
       => food' \notin Cells(snake')]_vars

(***************************************************************************)
(* C3: wrap variant: Reset from a game-over state yields exactly the       *)
(* state the component is created with.                                    *)
(***************************************************************************)
C3_ResetYieldsCreationState ==
  [][resetGame =>
       /\ snake' = <<(<<5, 5>>)>>
       /\ food' = <<2, 2>>
       /\ direction' = "RIGHT"
       /\ score' = 0
       /\ speed' = Rat(InitSpeed, 1)
       /\ gameOver' = FALSE]_vars

(***************************************************************************)
(* C4: wrap variant: in every reachable state every snake segment has      *)
(* 0 <= x < 10 and 0 <= y < 10.                                            *)
(***************************************************************************)
C4_WrapSnakeInGrid ==
  variant = "wrap" =>
    \A i \in 1..Len(snake) : ~OutOfGrid(snake[i], GridWrap)

(***************************************************************************)
(* C5: lethal variant: a tick whose computed head leaves the 20x20 grid    *)
(* sets gameOver and leaves snake, food, score and tick interval as they   *)
(* were.                                                                   *)
(***************************************************************************)
C5_BoundaryTickEndsGame ==
  [][(MoveSnakeLethal /\ OutOfGrid(Step(snake[1], direction), GridLethal))
       => /\ gameOver' = TRUE
          /\ UNCHANGED <<snake, food, score, speed>>]_vars

\* the game has ended with the head at (19,5) and RIGHT the direction applied
C5_Witness ==
  /\ variant = "lethal"
  /\ gameOver
  /\ snake[1] = <<19, 5>>
  /\ lastTickDir = "RIGHT"

(***************************************************************************)
(* C6: both variants: a tick changes the snake length by +1 if the new     *)
(* head lands on the food cell and by 0 otherwise: a non-eating            *)
(* non-lethal tick prepends the new head and drops the tail, a lethal tick *)
(* leaves the snake untouched.  The new head is the head the tick gives    *)
(* the snake; a lethal tick gives it none.                                 *)
(***************************************************************************)
NewHeadOnFood == snake'[1] # snake[1] /\ snake'[1] = food

C6_LengthByFood ==
  [][Tick =>
       /\ Len(snake') = Len(snake) + (IF NewHeadOnFood THEN 1 ELSE 0)
       /\ (gameOver' /\ ~gameOver) => snake' = snake
       /\ (~gameOver' /\ ~NewHeadOnFood)
            => snake' = <<ComputedHead>> \o SubSeq(snake, 1, Len(snake) - 1)
       /\ NewHeadOnFood => snake' = <<food>> \o snake]_vars

\* one food has been eaten in the lethal variant
C6_Witness ==
  /\ variant = "lethal"
  /\ Len(snake) = 2
  /\ score = 100
  /\ ~gameOver

\* A lethal tick whose computed head was the food cell (the food lies on the
\* snake's second segment): the snake has kept its two segments.
LethalTickOnFoodCell ==
  /\ gameOver
  /\ Len(snake) = 2
  /\ Step(snake[1], lastTickDir) = food

(***************************************************************************)
(* C7: both variants: score grows by exactly 100 on a tick whose new head  *)
(* is the food cell and is unchanged by every other tick and by every      *)
(* direction request.                                                      *)
(***************************************************************************)
C7_ScoreByFood ==
  [][/\ Tick => score' = score + (IF NewHeadOnFood THEN 100 ELSE 0)
     /\ Request => score' = score]_vars

\* one food has been eaten in the wrap variant
C7_Witness ==
  /\ variant = "wrap"
  /\ score = 100
  /\ Len(snake) = 2
  /\ ~gameOver

(***************************************************************************)
(* C8: the tick interval starts at 200; an eating tick makes it            *)
(* max(50, previous * decay), decay 0.95 (wrap) or 0.90 (lethal); no other *)
(* tick or input changes it; it never grows except by Reset and is never   *)
(* below 50.                                                               *)
(***************************************************************************)
\* speed' = max(50, speed * pct / 100), by cross-multiplication
IsDecayed(pct) ==
  IF speed[1] * pct < 50 * 100 * speed[2]
  THEN speed' = <<50, 1>>
  ELSE speed'[1] * 100 * speed[2] = speed[1] * pct * speed'[2]

C9_OppositeRequestIgnored ==
  [][(Request /\ lastRequest' = Opposite(direction))
       => UNCHANGED gameVars]_vars

\* LEFT has been requested while the direction was RIGHT, and it still is
C9_Witness ==
  /\ direction = "RIGHT"
  /\ lastRequest = "LEFT"

(***************************************************************************)
(* C10: once gameOver is true, every direction request is a no-op: the     *)
(* direction keeps the value it had when the game ended, until Reset.      *)
(***************************************************************************)
C10_NoTurnAfterGameOver ==
  [][(Request /\ gameOver) => direction' = direction]_vars

(***************************************************************************)
(* C11: gameOver is terminal for ticks.  Whenever gameOver is true no      *)
(* movement interval is armed; a step taken while gameOver is true changes *)
(* snake, food, score and speed only if it is the reset; and gameOver      *)
(* returns to false only through the reset, which the lethal variant does  *)
(* not have.                                                               *)
(***************************************************************************)
C11_GameOverTerminal ==
  [][/\ gameOver => timers = <<>>
     /\ gameOver' => timers' = <<>>
     /\ (gameOver /\ ~resetGame) => UNCHANGED <<snake, food, score, speed>>
     /\ (gameOver /\ ~gameOver') => (resetGame /\ variant = "wrap")
     /\ (gameOver /\ variant = "lethal") => gameOver']_vars

\* a lethal game has ended and a key has been handled since
C11_Witness ==
  /\ variant = "lethal"
  /\ gameOver
  /\ timers = <<>>
  /\ direction # lastTickDir

(***************************************************************************)
(* C12: once the component is unmounted no movement interval is armed and  *)
(* window holds no listener the component registered.                      *)
(***************************************************************************)
C12_DisposeDetachesAll ==
  ~mounted => (timers = <<>> /\ listeners = NoListeners)

(***************************************************************************)
(* C13: while the game runs exactly one movement interval is armed and its *)
(* period is the current speed; every tick fires from such an interval,    *)
(* and the tick that lowers speed leaves an interval of the new period     *)
(* armed.                                                                  *)
(***************************************************************************)
C13_OneTimerCurrentPeriod ==
  [][/\ (mounted /\ ~gameOver) => timers = <<speed>>
     /\ (mounted' /\ ~gameOver') => timers' = <<speed'>>
     /\ Tick => timers = <<speed>>
     /\ (Tick /\ speed' # speed) => timers' = <<speed'>>]_vars

\* a tick has just eaten and the armed interval has the lowered period
C13_Witness ==
  /\ lastTickAte
  /\ ~gameOver
  /\ RatLess(speed, Rat(InitSpeed, 1))
  /\ timers = <<speed>>

(***************************************************************************)
(* C14: while the game runs, the time since the previous tick never        *)
(* exceeds one period of the interval, whatever input arrives.             *)
(***************************************************************************)
C14_TickWithinInterval ==
  (mounted /\ ~gameOver /\ lastTickDir # "NONE") => sinceTick <= Quanta

(***************************************************************************)
(* C15: direction requests are not queued.  A request leaves the snake     *)
(* alone and is tested against the direction field as it stands: the field *)
(* takes the requested direction unless that is its own opposite.  The     *)
(* field holds only the last accepted request, and a tick moves the head   *)
(* by the field.                                                           *)
(***************************************************************************)
C15_LastAcceptedRequestWins ==
  [][/\ Request =>
          /\ snake' = snake
          /\ direction' \in {direction, lastRequest'}
          /\ direction' # direction => lastRequest' # Opposite(direction)
          /\ lastRequest' # lastRequest =>
                direction' = IF lastRequest' = Opposite(direction)
                             THEN direction ELSE lastRequest'
     /\ (Tick /\ ~gameOver') => snake'[1] = ComputedHead]_vars

\* lethal: the first tick went RIGHT, then two requests were accepted before
\* the second tick, which applied the last of them and went back
C15_Witness ==
  /\ variant = "lethal"
  /\ ~gameOver
  /\ snake = <<(<<10, 10>>)>>
  /\ lastTickDir = "LEFT"
  /\ lastRequest = "LEFT"

(***************************************************************************)
(* C16: a tick whose head stays in the grid ends the game exactly when the *)
(* head it computes, after the wrap, lies on a segment of the pre-tick     *)
(* snake other than the head; the tail counts although the tick would have *)
(* popped it.  Such a tick changes nothing but gameOver.  The computed     *)
(* head is never the old head.                                             *)
(***************************************************************************)
C16_SelfCollisionExact ==
  [][Tick =>
       LET hits == \E i \in 2..Len(snake) : snake[i] = ComputedHead
           outside == variant = "lethal" /\ OutOfGrid(ComputedHead, GridLethal)
       IN /\ ~outside => (gameOver' <=> hits)
          /\ hits => /\ gameOver'
                     /\ UNCHANGED <<snake, food, score, speed, direction>>
          /\ ComputedHead # snake[1]]_vars

\* wrap: the tick that ended the game ran into the tail cell
C16_Witness ==
  /\ variant = "wrap"
  /\ gameOver
  /\ Len(snake) >= 2
  /\ direction = lastTickDir
  /\ ComputedHead = snake[Len(snake)]

(***************************************************************************)
(* C17: in every state the snake has at least one segment and no two       *)
(* segments share a cell.                                                  *)
(***************************************************************************)
C17_SegmentsDistinct ==
  /\ Len(snake) >= 1
  /\ \A i, j \in 1..Len(snake) : i # j => snake[i] # snake[j]

\* wrap: a snake of two segments has reversed into itself, the game was
\* reset, and the new game has made a tick
C17_Witness ==
  /\ variant = "wrap"
  /\ score = 0
  /\ ~gameOver
  /\ snake = <<(<<11 % GridWrap, 10 % GridWrap>>)>>
  /\ lastTickDir = "RIGHT"

(***************************************************************************)
(* C18 as stated: in the lethal variant, when the food an eating tick      *)
(* spawned lies on the snake, the next tick eats again (score +100,        *)
(* length +1).                                                             *)
(***************************************************************************)
C18_RespawnOnSnakeEatsAgain ==
  [][(MoveSnakeLethal /\ lastTickAte /\ food \in Cells(snake)) =>
       (score' = score + ScoreStep /\ Len(snake') = Len(snake) + 1)]_vars

(***************************************************************************)
(* C18 amended: in the lethal variant, when the food an eating tick        *)
(* spawned lies on the snake, the next tick does not eat: score, length    *)
(* and food stay as they are.                                              *)
(***************************************************************************)
C18_RespawnOnSnakeNotEaten ==
  [][(MoveSnakeLethal /\ lastTickAte /\ food \in Cells(snake)) =>
       (score' = score /\ Len(snake') = Len(snake) /\ food' = food)]_vars

\* lethal: the tick after an eating tick has moved on and the food still
\* lies under the snake
C18_Witness ==
  /\ variant = "lethal"
  /\ ~lastTickAte
  /\ ~gameOver
  /\ Len(snake) = 2
  /\ food = snake[2]

(***************************************************************************)
(* C19: whenever a tick of the wrap variant is about to call generateFood  *)
(* (its head reaches the food without a collision), the rejection test     *)
(* accepts at least one cell of the grid, however long the snake is.       *)
(***************************************************************************)
C19_GenerateFoodAccepts ==
  (/\ variant = "wrap"
   /\ ~gameOver
   /\ ComputedHead = food
   /\ ~checkCollisionWrap(ComputedHead, snake))
  => generateFoodWrap(snake, WrapGrid) # {}

\* generateFood has returned for a snake of 99 segments: the snake fills the
\* grid and the food lies under its head
C19_Witness ==
  /\ Len(snake) = GridWrap * GridWrap
  /\ lastTickAte
  /\ food = snake[1]

(***************************************************************************)
(* C20: in every state score = 100 * (length of the snake - 1).            *)
(***************************************************************************)
C20_ScoreTracksLength ==
  score = ScoreStep * (Len(snake) - 1)

\* two foods eaten
C20_Witness ==
  /\ Len(snake) = 3
  /\ score = 2 * ScoreStep

====
